---- MODULE Spec2Model ----
(***************************************************************************)
(* Model of data_analysis.py: the voter-registration analysis pipeline.    *)
(*                                                                         *)
(* main() is a straight line: load_and_clean_data, generate_scatter_plot,  *)
(* generate_box_plot, generate_bar_plot, generate_summary_statistics and a *)
(* closing manifest.  Each call is one action; an exception raised inside  *)
(* a call propagates out of main (there is no try/except in the file).     *)
(*                                                                         *)
(* Floating point values are modelled as extended rationals: a finite      *)
(* value n/d in lowest terms, +inf, -inf or NaN, with the IEEE-754 rules   *)
(* for division by zero and for inf/NaN arithmetic.  Negative zero is      *)
(* identified with zero and binary rounding error is not modelled.         *)
(***************************************************************************)
EXTENDS Integers, Sequences, FiniteSets, TLC

VARIABLES csv, pc, df, files, stdout, error,
          top_districts, division_stats, division_summary, top5, top5_gender

vars == <<csv, pc, df, files, stdout, error,
          top_districts, division_stats, division_summary, top5, top5_gender>>

----------------------------------------------------------------------------
(* Floating point values *)

Abs(n) == IF n < 0 THEN -n ELSE n

RECURSIVE GCD(_, _)
GCD(a, b) == IF b = 0 THEN a ELSE GCD(b, a % b)

\* the finite value n/d (d > 0), in lowest terms
Fin(n, d) ==
    LET g == GCD(Abs(n), d)
    IN  [k |-> "fin", n |-> n \div g, d |-> d \div g]

Int2F(n) == [k |-> "fin", n |-> n, d |-> 1]
Zero == Int2F(0)
PInf == [k |-> "inf", n |-> 1, d |-> 0]
NInf == [k |-> "inf", n |-> -1, d |-> 0]
NaN  == [k |-> "nan", n |-> 0, d |-> 0]

IsNaN(v) == v.k = "nan"
IsFinite(v) == v.k = "fin"
Sign(v) == IF v.n > 0 THEN 1 ELSE IF v.n < 0 THEN -1 ELSE 0

\* a + b
FAdd(a, b) ==
    IF IsNaN(a) \/ IsNaN(b) THEN NaN
    ELSE IF a.k = "inf" /\ b.k = "inf" THEN (IF a.n = b.n THEN a ELSE NaN)
    ELSE IF a.k = "inf" THEN a
    ELSE IF b.k = "inf" THEN b
    ELSE Fin(a.n * b.d + b.n * a.d, a.d * b.d)

\* a / b: x/0 is +-inf, 0/0 and inf/inf are NaN, x/inf is 0
FDiv(a, b) ==
    IF IsNaN(a) \/ IsNaN(b) THEN NaN
    ELSE IF a.k = "inf" /\ b.k = "inf" THEN NaN
    ELSE IF a.k = "inf" THEN (IF Sign(b) < 0 THEN (IF a.n > 0 THEN NInf ELSE PInf) ELSE a)
    ELSE IF b.k = "inf" THEN Zero
    ELSE IF b.n = 0 THEN (IF a.n = 0 THEN NaN ELSE IF a.n > 0 THEN PInf ELSE NInf)
    ELSE IF b.n > 0 THEN Fin(a.n * b.d, a.d * b.n)
    ELSE Fin(-(a.n * b.d), a.d * (-b.n))

\* a * c for an integer constant c > 0
FScale(a, c) == IF IsFinite(a) THEN Fin(a.n * c, a.d) ELSE a

\* a > b; every comparison with NaN is false
FGt(a, b) ==
    IF IsNaN(a) \/ IsNaN(b) THEN FALSE
    ELSE IF a.k = "inf" THEN a.n > 0 /\ b # a
    ELSE IF b.k = "inf" THEN b.n < 0
    ELSE a.n * b.d > b.n * a.d

RECURSIVE Pow10(_)
Pow10(e) == IF e = 0 THEN 1 ELSE 10 * Pow10(e - 1)

\* truncation toward minus infinity instead of rounding
FRoundDown(a, decimals) ==
    IF ~IsFinite(a) THEN a
    ELSE Fin((a.n * Pow10(decimals)) \div a.d, Pow10(decimals))

\* .round(decimals): the nearest multiple of 10^-decimals, ties to even
FRound(a, decimals) ==
    IF ~IsFinite(a) THEN a
    ELSE LET scale == Pow10(decimals)
             x == a.n * scale
             q == x \div a.d
             r == x % a.d
             up == IF 2 * r > a.d THEN 1
                   ELSE IF 2 * r < a.d THEN 0
                   ELSE q % 2
         IN  Fin(q + up, scale)

----------------------------------------------------------------------------
(* Text of a cell: a sequence of characters *)

Digits == <<"0", "1", "2", "3", "4", "5", "6", "7", "8", "9">>
IsDigit(c) == \E i \in 1..Len(Digits) : Digits[i] = c
DigitVal(c) == (CHOOSE i \in 1..Len(Digits) : Digits[i] = c) - 1

NanText == <<"n", "a", "n">>
InfText == <<"i", "n", "f">>

\* pandas.read_csv default na_values seen by the model: "" and "NA"
NaValues == {<<>>, <<"N", "A">>}
Missing == <<"NaN">>

\* read_csv: a cell holding an NA marker is read as a missing value
ReadCsvCell(c) == IF c \in NaValues THEN Missing ELSE c

\* .astype(str): a missing value becomes the text 'nan'
AsTypeStr(c) == IF c = Missing THEN NanText ELSE c

\* .str.replace(',', ''): every comma is removed
StrReplaceComma(s) == SelectSeq(s, LAMBDA c : c # ",")

\* Series.replace('NA', '0'): a whole-value match only
ReplaceNA(s) == IF s = <<"N", "A">> THEN <<"0">> ELSE s

RECURSIVE ParseDigits(_, _)
ParseDigits(s, acc) ==
    IF s = <<>> THEN acc ELSE ParseDigits(Tail(s), 10 * acc + DigitVal(Head(s)))

AllDigits(s) == s # <<>> /\ \A i \in 1..Len(s) : IsDigit(s[i])

\* pd.to_numeric(errors='coerce'): an optionally signed decimal number, inf
\* or -inf parses; anything else (the text 'nan' too) becomes NaN
ToNumeric(s) ==
    LET neg    == s # <<>> /\ Head(s) = "-"
        body   == IF neg THEN Tail(s) ELSE s
        dots   == {i \in 1..Len(body) : body[i] = "."}
        digits == SelectSeq(body, LAMBDA c : c # ".")
        frac   == IF dots = {} THEN 0 ELSE Len(body) - (CHOOSE i \in dots : TRUE)
        mag    == ParseDigits(digits, 0)
    IN  IF Cardinality(dots) <= 1 /\ AllDigits(digits)
        THEN Fin(IF neg THEN -mag ELSE mag, Pow10(frac))
        ELSE IF body = InfText THEN (IF neg THEN NInf ELSE PInf)
        ELSE NaN

FillnaKeep(v) == v

\* .fillna(0)
Fillna0(v) == IF IsNaN(v) THEN Zero ELSE v

\* lines 31-32 applied to one cell
CleanCell(c) == Fillna0(ToNumeric(ReplaceNA(StrReplaceComma(AsTypeStr(ReadCsvCell(c))))))

----------------------------------------------------------------------------
(* The input file data.csv *)

NumericColumns == <<"Active Registration", "Male", "Female", "Other">>
NumericSet == {NumericColumns[i] : i \in 1..Len(NumericColumns)}
AllColumns == {"Division", "District"} \cup NumericSet
DerivedColumns == {"Total_Registration", "Gender_Ratio", "Female_Percentage", "Male_Percentage"}

Divisions == {"A", "B"}
DistrictName(i) == <<"D", i>>

\* bounds of the input tables
MaxRows == 2
RankVary == 3

\* raw cell texts: empty, NA, text, plain numbers, a decimal, a
\* comma-formatted number, a negative number and an inf token
RawCells == { <<>>, <<"N", "A">>, <<"x">>, <<"0">>, <<"3">>, <<"2", ".", "5">>,
              <<"1", ",", "0", "0", "0">>, <<"-", "2">>, <<"i", "n", "f">> }

RawRow(i, div, ar, m, f, o) ==
    [c \in AllColumns |->
        CASE c = "Division" -> div
          [] c = "District" -> DistrictName(i)
          [] c = "Active Registration" -> ar
          [] c = "Male" -> m
          [] c = "Female" -> f
          [] c = "Other" -> o]

CsvFile(rows) == [exists |-> TRUE, columns |-> AllColumns, rows |-> rows]

\* tables of at most MaxRows rows over small plain values
PlainRows(i) ==
    { RawRow(i, div, ar, m, f, <<"N", "A">>) :
        div \in Divisions, ar \in {<<"0">>, <<"3">>},
        m \in {<<"0">>, <<"3">>}, f \in {<<"0">>, <<"2">>} }

RECURSIVE PlainTables(_)
PlainTables(n) ==
    IF n = 0 THEN {<<>>}
    ELSE {Append(t, r) : t \in PlainTables(n - 1), r \in PlainRows(n)}

\* one-row tables over every raw cell text in every numeric column
CellTables ==
    { <<RawRow(1, "A", ar, m, f, o)>> :
        ar \in RawCells, m \in RawCells, f \in RawCells, o \in RawCells }

\* ranking tables: more rows than the largest top-N, a cyclic prefix and
\* RankVary free trailing rows, with ties in both ranking columns
TopDistricts == 15
TopSummary == 5
RankRows == TopDistricts + 1

Profile(i, p) ==
    CASE p = 0 -> RawRow(i, "A", <<"3">>, <<"3">>, <<"2">>, <<"0">>)
      [] p = 1 -> RawRow(i, "B", <<"2">>, <<"2">>, <<"2">>, <<"0">>)
      [] p = 2 -> RawRow(i, "A", <<"1">>, <<"1">>, <<"1">>, <<"0">>)

RECURSIVE RankTables(_)
RankTables(n) ==
    IF n = 0 THEN {<<>>}
    ELSE IF n <= RankRows - RankVary
         THEN {Append(t, Profile(n, n % 3)) : t \in RankTables(n - 1)}
         ELSE {Append(t, Profile(n, p)) : t \in RankTables(n - 1), p \in 0..2}

\* a file with one column missing, and no file at all
BrokenFiles ==
    { [exists |-> TRUE, columns |-> AllColumns \ {c},
       rows |-> <<[k \in AllColumns \ {c} |-> <<"1">>]>>] : c \in AllColumns }
    \cup { [exists |-> FALSE, columns |-> {}, rows |-> <<>>] }

CsvFiles ==
    {CsvFile(t) : t \in UNION {PlainTables(n) : n \in 0..MaxRows}}
    \cup {CsvFile(t) : t \in CellTables}
    \cup {CsvFile(t) : t \in RankTables(RankRows)}
    \cup BrokenFiles

----------------------------------------------------------------------------
(* load_and_clean_data *)

\* read_csv raises when the file is absent; df[col] raises KeyError when a
\* column is absent (lines 31, 41, 42)
LoadRaises(f) == ~f.exists \/ ~(AllColumns \subseteq f.columns)

\* lines 30-38 on one row
CleanRow(r) ==
    LET ar == CleanCell(r["Active Registration"])
        m  == CleanCell(r["Male"])
        f  == CleanCell(r["Female"])
        o  == CleanCell(r["Other"])
    IN  [c \in AllColumns \cup DerivedColumns |->
            CASE c = "Division" -> r["Division"]
              [] c = "District" -> r["District"]
              [] c = "Active Registration" -> ar
              [] c = "Male" -> m
              [] c = "Female" -> f
              [] c = "Other" -> o
              [] c = "Total_Registration" -> FAdd(FAdd(m, f), o)
              [] c = "Gender_Ratio" -> FScale(FDiv(f, m), 1000)
              [] c = "Female_Percentage" -> FScale(FDiv(f, ar), 100)
              [] c = "Male_Percentage" -> FScale(FDiv(m, ar), 100)]

LoadAndCleanData(f) == [i \in 1..Len(f.rows) |-> CleanRow(f.rows[i])]

----------------------------------------------------------------------------
(* pandas helpers used by the renderers and the reporter *)

Min(a, b) == IF a < b THEN a ELSE b

Col(d, i, col) == d[i][col]

\* ties placed before the rows already ranked, as keep='last' would order them
InsertPosTiesFirst(s, i, col, d) ==
    Cardinality({j \in 1..Len(s) : FGt(Col(d, s[j], col), Col(d, i, col))})

\* nlargest keep='first': a row goes after every ranked row whose value is
\* greater or equal, so equal values stay in order of appearance
InsertPos(s, i, col, d) ==
    Cardinality({j \in 1..Len(s) : ~FGt(Col(d, i, col), Col(d, s[j], col))})

RECURSIVE SortDesc(_, _, _, _)
SortDesc(todo, done, col, d) ==
    IF todo = <<>> THEN done
    ELSE LET i == Head(todo)
             k == InsertPos(done, i, col, d)
         IN  SortDesc(Tail(todo),
                      SubSeq(done, 1, k) \o <<i>> \o SubSeq(done, k + 1, Len(done)),
                      col, d)

Indices(d) == [i \in 1..Len(d) |-> i]

\* DataFrame.nlargest(n, col): the index labels of the n largest rows, in
\* descending order; rows whose value is NaN come last
Nlargest(n, col, d) ==
    LET valid  == SelectSeq(Indices(d), LAMBDA i : ~IsNaN(Col(d, i, col)))
        nans   == SelectSeq(Indices(d), LAMBDA i : IsNaN(Col(d, i, col)))
        ranked == SortDesc(valid, <<>>, col, d) \o nans
    IN  SubSeq(ranked, 1, Min(n, Len(ranked)))

DivisionsOf(d) == {d[i]["Division"] : i \in 1..Len(d)}
GroupRows(d, div) == SelectSeq(d, LAMBDA r : r["Division"] = div)

\* groupby(...).sum(): missing values are skipped
RECURSIVE GroupSum(_, _)
GroupSum(rows, col) ==
    IF rows = <<>> THEN Zero
    ELSE IF IsNaN(Head(rows)[col]) THEN GroupSum(Tail(rows), col)
    ELSE FAdd(Head(rows)[col], GroupSum(Tail(rows), col))

\* groupby(...).mean(): the sum over the count of the values present
GroupMean(rows, col) ==
    LET present == Len(SelectSeq(rows, LAMBDA r : ~IsNaN(r[col])))
    IN  IF present = 0 THEN NaN ELSE FDiv(GroupSum(rows, col), Int2F(present))

RoundBar == 0
RoundSummary == 1

\* lines 159-164
DivisionStats(d) ==
    [div \in DivisionsOf(d) |->
        LET g == GroupRows(d, div)
        IN  [ar_sum     |-> FRound(GroupSum(g, "Active Registration"), RoundBar),
             male_sum   |-> FRound(GroupSum(g, "Male"), RoundBar),
             female_sum |-> FRound(GroupSum(g, "Female"), RoundBar),
             gr_mean    |-> FRound(GroupMean(g, "Gender_Ratio"), RoundBar)]]

\* lines 204-208
DivisionSummary(d) ==
    [div \in DivisionsOf(d) |->
        LET g == GroupRows(d, div)
        IN  [ar_sum  |-> FRound(GroupSum(g, "Active Registration"), RoundSummary),
             ar_mean |-> FRound(GroupMean(g, "Active Registration"), RoundSummary),
             gr_mean |-> FRound(GroupMean(g, "Gender_Ratio"), RoundSummary),
             fp_mean |-> FRound(GroupMean(g, "Female_Percentage"), RoundSummary)]]

\* np.polyfit raises TypeError on an empty x
PolyfitRaises(d) == Len(d) = 0

\* with an inf or NaN among x or y the least-squares solver raises
\* LinAlgError or returns NaN coefficients, depending on the LAPACK build
PolyfitMayRaise(d) ==
    \E i \in 1..Len(d) :
        ~IsFinite(d[i]["Active Registration"]) \/ ~IsFinite(d[i]["Gender_Ratio"])

----------------------------------------------------------------------------
(* main *)

StageOrder == <<"load", "scatter", "box", "bar", "summary", "manifest">>

StageIndex(s) == CHOOSE i \in 1..Len(StageOrder) : StageOrder[i] = s

\* bar chart rendered before the box plot
NextStageBarFirst(s) ==
    CASE s = "load" -> "scatter"
      [] s = "scatter" -> "bar"
      [] s = "bar" -> "box"
      [] s = "box" -> "summary"
      [] s = "summary" -> "manifest"
      [] s = "manifest" -> "done"

\* the statement of main that follows stage s
NextStage(s) ==
    IF StageIndex(s) = Len(StageOrder) THEN "done" ELSE StageOrder[StageIndex(s) + 1]

Init ==
    /\ csv \in CsvFiles
    /\ pc = "load"
    /\ df = <<>>
    /\ files = {}
    /\ stdout = <<>>
    /\ error = "none"
    /\ top_districts = <<>>
    /\ division_stats = <<>>
    /\ division_summary = <<>>
    /\ top5 = <<>>
    /\ top5_gender = <<>>

\* the exception is caught and main goes on with an empty table
LoadErrorSwallowed ==
    /\ pc = "load"
    /\ LoadRaises(csv)
    /\ pc' = NextStage("load")
    /\ stdout' = Append(stdout, "load")
    /\ UNCHANGED <<csv, df, files, error, top_districts, division_stats,
                   division_summary, top5, top5_gender>>

\* line 227, load_and_clean_data raises: the exception leaves main
LoadAndCleanDataRaises ==
    /\ pc = "load"
    /\ LoadRaises(csv)
    /\ pc' = "failed"
    /\ error' = "load"
    /\ UNCHANGED <<csv, df, files, stdout, top_districts, division_stats,
                   division_summary, top5, top5_gender>>

\* line 227, load_and_clean_data returns the cleaned table
LoadAndCleanDataReturns ==
    /\ pc = "load"
    /\ ~LoadRaises(csv)
    /\ df' = LoadAndCleanData(csv)
    /\ stdout' = Append(stdout, "load")
    /\ pc' = NextStage("load")
    /\ UNCHANGED <<csv, files, error, top_districts, division_stats,
                   division_summary, top5, top5_gender>>

\* line 233, np.polyfit raises inside generate_scatter_plot
GenerateScatterPlotRaises ==
    /\ pc = "scatter"
    /\ PolyfitRaises(df) \/ PolyfitMayRaise(df)
    /\ pc' = "failed"
    /\ error' = "scatter"
    /\ UNCHANGED <<csv, df, files, stdout, top_districts, division_stats,
                   division_summary, top5, top5_gender>>

\* line 233
GenerateScatterPlot ==
    /\ pc = "scatter"
    /\ ~PolyfitRaises(df)
    /\ files' = files \cup {"scatter_plot.png"}
    /\ stdout' = Append(stdout, "scatter")
    /\ pc' = NextStage("scatter")
    /\ UNCHANGED <<csv, df, error, top_districts, division_stats,
                   division_summary, top5, top5_gender>>

\* line 236
GenerateBoxPlot ==
    /\ pc = "box"
    /\ files' = files \cup {"box_plot.png"}
    /\ stdout' = Append(stdout, "box")
    /\ pc' = NextStage("box")
    /\ UNCHANGED <<csv, df, error, top_districts, division_stats,
                   division_summary, top5, top5_gender>>

\* the table is sorted in place while the top districts are ranked
GenerateBarPlotSortsInPlace ==
    /\ pc = "bar"
    /\ top_districts' = Nlargest(TopDistricts, "Active Registration", df)
    /\ division_stats' = DivisionStats(df)
    /\ df' = LET order == Nlargest(Len(df), "Active Registration", df)
             IN  [i \in 1..Len(df) |-> df[order[i]]]
    /\ files' = files \cup {"bar_plot.png"}
    /\ stdout' = Append(stdout, "bar")
    /\ pc' = NextStage("bar")
    /\ UNCHANGED <<csv, error, division_summary, top5, top5_gender>>

\* line 239
GenerateBarPlot ==
    /\ pc = "bar"
    /\ top_districts' = Nlargest(TopDistricts, "Active Registration", df)
    /\ division_stats' = DivisionStats(df)
    /\ files' = files \cup {"bar_plot.png"}
    /\ stdout' = Append(stdout, "bar")
    /\ pc' = NextStage("bar")
    /\ UNCHANGED <<csv, df, error, division_summary, top5, top5_gender>>

\* line 242
GenerateSummaryStatistics ==
    /\ pc = "summary"
    /\ division_summary' = DivisionSummary(df)
    /\ top5' = Nlargest(TopSummary, "Active Registration", df)
    /\ top5_gender' = Nlargest(TopSummary, "Gender_Ratio", df)
    /\ stdout' = Append(stdout, "summary")
    /\ pc' = NextStage("summary")
    /\ UNCHANGED <<csv, df, files, error, top_districts, division_stats>>

\* lines 244-250
PrintManifest ==
    /\ pc = "manifest"
    /\ stdout' = Append(stdout, "manifest")
    /\ pc' = NextStage("manifest")
    /\ UNCHANGED <<csv, df, files, error, top_districts, division_stats,
                   division_summary, top5, top5_gender>>

Next ==
    \/ LoadAndCleanDataRaises
    \/ LoadAndCleanDataReturns
    \/ GenerateScatterPlotRaises
    \/ GenerateScatterPlot
    \/ GenerateBoxPlot
    \/ GenerateBarPlot
    \/ GenerateSummaryStatistics
    \/ PrintManifest

Spec == Init /\ [][Next]_vars

----------------------------------------------------------------------------
(* Properties *)

Range(s) == {s[i] : i \in 1..Len(s)}
Printed(stage) == stage \in Range(stdout)
Loaded == Printed("load")
Terminated == pc \in {"done", "failed"}
ImageFiles == {"scatter_plot.png", "box_plot.png", "bar_plot.png"}
Rows == 1..Len(df)

\* C1: after load_and_clean_data every value of the four numeric columns is
\* a non-negative finite number, whatever the raw cell held.
C1_NumericNonNegativeFinite ==
    Loaded =>
        \A i \in Rows : \A col \in NumericSet :
            IsFinite(df[i][col]) /\ df[i][col].n >= 0

\* a text that reads as a number: an optional sign, then inf or digits with
\* at most one decimal point
IsNumberText(s) ==
    LET b == IF s # <<>> /\ s[1] = "-" THEN Tail(s) ELSE s
    IN  \/ b = <<"i", "n", "f">>
        \/ /\ \E i \in 1..Len(b) : IsDigit(b[i])
           /\ \A i \in 1..Len(b) : IsDigit(b[i]) \/ b[i] = "."
           /\ \A i, j \in 1..Len(b) : b[i] = "." /\ b[j] = "." => i = j

\* C2: a cell of a numeric column that does not parse as a number once the
\* commas are stripped becomes zero; cleaning never raises because of a
\* cell, and the cleaned table has the rows of the input, in order.
C2_MalformedCellBecomesZero ==
    /\ error = "load" => LoadRaises(csv)
    /\ Loaded =>
        /\ Len(df) = Len(csv.rows)
        /\ \A i \in Rows :
            /\ df[i]["District"] = csv.rows[i]["District"]
            /\ \A col \in NumericSet :
                ~IsNumberText(SelectSeq(csv.rows[i][col], LAMBDA c : c # ","))
                    => df[i][col] = Zero

C2_Witness ==
    /\ Loaded
    /\ \E i \in Rows : csv.rows[i]["Male"] = <<"x">> /\ df[i]["Male"] = Zero

\* C3: every row whose Male is 0 gets the same Gender_Ratio whatever its
\* Female, and every row whose Active Registration is 0 gets the same
\* Female_Percentage and the same Male_Percentage.
C3_OneSentinel ==
    Loaded =>
        \A i, j \in Rows :
            /\ df[i]["Male"] = Zero /\ df[j]["Male"] = Zero
                => df[i]["Gender_Ratio"] = df[j]["Gender_Ratio"]
            /\ df[i]["Active Registration"] = Zero /\ df[j]["Active Registration"] = Zero
                => /\ df[i]["Female_Percentage"] = df[j]["Female_Percentage"]
                   /\ df[i]["Male_Percentage"] = df[j]["Male_Percentage"]

\* C4: with a header and zero rows main does not fail, and once it has
\* ended the three images are written and the summary and manifest printed.
C4_EmptyTableCompletes ==
    (~LoadRaises(csv) /\ csv.rows = <<>>) =>
        /\ pc # "failed"
        /\ pc = "done" => files = ImageFiles /\ Printed("summary") /\ Printed("manifest")

\* C5: when a renderer has raised, the run still ends with the other
\* renderers' images written and the summary printed.
C5_RendererErrorIsolated ==
    \A e \in {"scatter", "box", "bar"} :
        (Terminated /\ error = e) =>
            /\ ImageFiles \ {e \o "_plot.png"} \subseteq files
            /\ Printed("summary")

\* C6: when data.csv is missing or lacks a numeric column, the run fails in
\* load_and_clean_data and the error leaves main; no image is written and
\* neither the summary nor the manifest is printed.
C6_FatalSetupError ==
    (~csv.exists \/ ~(NumericSet \subseteq csv.columns)) =>
        /\ pc \in {"load", "failed"}
        /\ pc = "load" => ENABLED LoadAndCleanDataRaises
        /\ pc = "failed" => error = "load"
        /\ files = {}
        /\ stdout = <<>>

C6_Witness ==
    /\ pc = "failed"
    /\ error = "load"
    /\ csv.exists
    /\ "Male" \notin csv.columns

\* C7: the stages of a run happen once each and in the order load, scatter,
\* box, bar, summary, manifest; a stage starts only when the previous one
\* has finished, and the manifest comes after the three images are written.
C7_StageOrder ==
    /\ Len(stdout) <= Len(StageOrder)
    /\ \A i \in 1..Len(stdout) : stdout[i] = StageOrder[i]
    /\ pc \in Range(StageOrder) /\ pc # "load" => Len(stdout) = StageIndex(pc) - 1
    /\ pc = "done" => stdout = StageOrder
    /\ \A r \in {"scatter", "box", "bar"} : Printed(r) <=> (r \o "_plot.png") \in files
    /\ Printed("manifest") => files = ImageFiles

C7_Witness == pc = "done" /\ stdout = StageOrder /\ files = ImageFiles

\* rows of equal value keep the order of the input, and a tie across the
\* cut-off selects the earlier row
TiesKeepInputOrder(r, col) ==
    /\ \A a, b \in 1..Len(r) :
        a < b /\ df[r[a]][col] = df[r[b]][col] => r[a] < r[b]
    /\ \A a \in 1..Len(r) : \A t \in Rows \ Range(r) :
        df[t][col] = df[r[a]][col] => r[a] < t

TieAcrossCutoff(r, col) ==
    \E a \in 1..Len(r) : \E t \in Rows \ Range(r) : df[t][col] = df[r[a]][col]

\* C8: in the top-15 ranking of the bar chart and the two top-5 rankings of
\* the summary, rows of equal ranking value appear in input order and a tie
\* across the cut-off selects the row that comes earlier in the input.
C8_RankingTiesStable ==
    /\ Printed("bar") => TiesKeepInputOrder(top_districts, "Active Registration")
    /\ Printed("summary") =>
        /\ TiesKeepInputOrder(top5, "Active Registration")
        /\ TiesKeepInputOrder(top5_gender, "Gender_Ratio")

C8_Witness ==
    /\ pc = "done"
    /\ Len(top_districts) = TopDistricts
    /\ TieAcrossCutoff(top_districts, "Active Registration")
    /\ TieAcrossCutoff(top5, "Active Registration")
    /\ TieAcrossCutoff(top5_gender, "Gender_Ratio")

SingleDistrict(i) == \A j \in Rows : df[j]["Division"] = df[i]["Division"] => j = i

\* C9 as stated: for a Division with one district every per-division
\* aggregate equals that row's value exactly.
C9_SingleDistrictExact ==
    \A i \in Rows : SingleDistrict(i) =>
        LET div == df[i]["Division"] IN
        /\ Printed("bar") =>
            /\ division_stats[div].male_sum = df[i]["Male"]
            /\ division_stats[div].female_sum = df[i]["Female"]
        /\ Printed("summary") =>
            /\ division_summary[div].ar_sum = df[i]["Active Registration"]
            /\ division_summary[div].ar_mean = df[i]["Active Registration"]
            /\ division_summary[div].gr_mean = df[i]["Gender_Ratio"]
            /\ division_summary[div].fp_mean = df[i]["Female_Percentage"]

\* x is v rounded to the given number of decimals: a multiple of
\* 10^-decimals at most half a unit away; inf and NaN are kept
IsRounded(x, v, decimals) ==
    IF ~IsFinite(v) THEN x = v
    ELSE /\ IsFinite(x)
         /\ (x.n * Pow10(decimals)) % x.d = 0
         /\ 2 * Pow10(decimals) * Abs(x.n * v.d - v.n * x.d) <= x.d * v.d

\* C9 amended: for a Division with one district every per-division
\* aggregate equals that row's value rounded to one decimal in the summary
\* and to zero decimals in the bar chart.
C9_SingleDistrictRounded ==
    \A i \in Rows : SingleDistrict(i) =>
        LET div == df[i]["Division"] IN
        /\ Printed("bar") =>
            /\ IsRounded(division_stats[div].male_sum, df[i]["Male"], RoundBar)
            /\ IsRounded(division_stats[div].female_sum, df[i]["Female"], RoundBar)
        /\ Printed("summary") =>
            /\ IsRounded(division_summary[div].ar_sum, df[i]["Active Registration"], RoundSummary)
            /\ IsRounded(division_summary[div].ar_mean, df[i]["Active Registration"], RoundSummary)
            /\ IsRounded(division_summary[div].gr_mean, df[i]["Gender_Ratio"], RoundSummary)
            /\ IsRounded(division_summary[div].fp_mean, df[i]["Female_Percentage"], RoundSummary)

C9_Witness ==
    /\ pc = "done"
    /\ \E i \in Rows :
        /\ SingleDistrict(i)
        /\ division_summary[df[i]["Division"]].gr_mean # df[i]["Gender_Ratio"]
        /\ IsFinite(df[i]["Gender_Ratio"])

\* C10: once load_and_clean_data has returned, no renderer and no reporter
\* changes the table.
C10_TableImmutable == [][pc # "load" => df' = df]_vars

C10_Witness == pc = "done" /\ Len(df) > 1 /\ df = LoadAndCleanData(csv)

====
